---- MODULE Spec2Model ----
(***************************************************************************)
(* QLinearAddMsOp (AIPUBuilder/Parser/ops/onnx_ops/contrib_ops.py): the    *)
(* lazily derived, cached attributes of the node (__getattr__) and its     *)
(* quantized add (infer_shape).                                            *)
(*                                                                         *)
(* A tensor is [dtype, val, den]: the elements are the rationals           *)
(* val[i] / den (den = 1 for an integer tensor); a 0-d tensor has one      *)
(* element and broadcasts.  Scales are positive dyadic rationals, which    *)
(* float32 and float64 hold exactly, so the float arithmetic of the code   *)
(* is exact on them.  Input tensors are resolved (never None) and all      *)
(* integer tensors of one node share the element type T, as the operator's *)
(* type constraint requires.                                               *)
(***************************************************************************)
EXTENDS Integers, Sequences, FiniteSets, TLC

VARIABLES
    inputs,      \* get_input_tensors(): the node's input tensors, in order
    attr,        \* self.__dict__['_attr']: name -> Attribute or Absent
    declared,    \* the attributes the node was constructed with (history)
    ret,         \* what the last attribute read outside infer_shape returned
    lastItem,    \* the name that read asked for
    reads,       \* number of such reads
    derivCount,  \* name -> number of times __getattr__ derived it (history)
    out,         \* the node's output tensor (set_out_tensor), or Unresolved
    prevOut,     \* the output tensor before the last pass
    exc,         \* what the last infer_shape raised
    err,         \* the error record the driver keeps of it
    passes,      \* number of infer_shape passes
    runInputs,   \* the inputs the last pass saw
    prevInputs,  \* the inputs the pass before it saw
    floats,      \* float_a and float_b of the last pass that computed them
    \* convert_torch_to_onnx (front_end/torch/process.py)
    pc,              \* where the conversion stands
    input_shapes,    \* params['input_shapes']: an ordered dict, as a sequence
    input_info_dict, \* the deep copy of it taken at line 366: what the caller gave
    input_dtype,     \* params['input_dtype']
    idx,             \* inputs the loop of line 368 has been through
    inputNames,      \* the list input_names built at lines 364-375
    exit_code,       \* lines 416 and 431
    child,           \* the export process: "none", "running" or "exited"
    childExit,       \* the exit code it ended with
    raised,          \* whether starting or joining the process raised (history)
    result           \* what convert_torch_to_onnx returned, or NoResult

nodeVars == <<inputs, attr, declared, ret, lastItem, reads, derivCount, out,
              prevOut, exc, err, passes, runInputs, prevInputs, floats>>

torchVars == <<pc, input_shapes, input_info_dict, input_dtype, idx, inputNames,
               exit_code, child, childExit, raised, result>>

vars == <<nodeVars, torchVars>>

(* ------------------------------ bounds ------------------------------ *)
MaxReads == 2
MaxPasses == 2
MaxInputs == 2

(* ------------------------------ tensors ----------------------------- *)
NoneT == [dtype |-> "none", val |-> <<>>, den |-> 1]
Unresolved == [dtype |-> "unresolved", val |-> <<>>, den |-> 1]

IntT(d, v) == [dtype |-> d, val |-> v, den |-> 1]
ScalarT(d, x) == [dtype |-> d, val |-> <<x>>, den |-> 1]
FloatT(d, n, q) == [dtype |-> d, val |-> <<n>>, den |-> q]

Bits(d) ==
    CASE d = "uint8" -> 8 [] d = "int8" -> 8 [] d = "int16" -> 16 [] d = "int32" -> 32

Signed(d) == d # "uint8"

\* np.iinfo(d).min and .max; the int32 bounds are written out, 2^31 being beyond
\* TLC's integers.
iinfo_min(d) ==
    IF d = "int32" THEN -2147483647 - 1
    ELSE IF Signed(d) THEN 0 - 2 ^ (Bits(d) - 1) ELSE 0

iinfo_max(d) ==
    IF d = "int32" THEN 2147483647
    ELSE IF Signed(d) THEN 2 ^ (Bits(d) - 1) - 1 ELSE 2 ^ Bits(d) - 1

\* Conversion of an integer to element type d: two's-complement wrap.  Every
\* integer TLC holds is an int32 already.
WrapTo(d, x) ==
    IF d = "int32" THEN x
    ELSE LET m == x % (2 ^ Bits(d))
         IN  IF Signed(d) /\ m >= 2 ^ (Bits(d) - 1) THEN m - 2 ^ Bits(d) ELSE m

\* ndarray.astype(d) for an integer-valued tensor.
astype(t, d) == [dtype |-> d, val |-> [i \in DOMAIN t.val |-> WrapTo(d, t.val[i])], den |-> 1]

\* np.array(x).astype(np.float32): exact on the dyadic scales used here.
AsFloat32(t) == [t EXCEPT !.dtype = "float32"]

\* Element i with broadcasting of a one-element tensor.
Elem(t, i) == IF Len(t.val) = 1 THEN t.val[1] ELSE t.val[i]
Shape(a, b) == IF Len(a.val) >= Len(b.val) THEN DOMAIN a.val ELSE DOMAIN b.val

\* numpy's result type of integer arithmetic between element types a and b.
PromoteInt(a, b) ==
    IF a = b THEN a
    ELSE IF Bits(a) > Bits(b) /\ (Signed(a) \/ ~Signed(b)) THEN a
    ELSE IF Bits(b) > Bits(a) /\ (Signed(b) \/ ~Signed(a)) THEN b
    ELSE "int16"

(* ------------------- the arithmetic of infer_shape ------------------ *)
\* a - b on integer tensors, in numpy's result type (wrapping in it).
Subtract(a, b) ==
    LET d == PromoteInt(a.dtype, b.dtype)
    IN  [dtype |-> d,
         val |-> [i \in Shape(a, b) |-> WrapTo(d, Elem(a, i) - Elem(b, i))],
         den |-> 1]

\* integer tensor * scale: float64.
Multiply(a, s) ==
    [dtype |-> "float64", val |-> [i \in DOMAIN a.val |-> a.val[i] * s.val[1]], den |-> s.den]

\* np.add on two float tensors.
np_add(x, y) ==
    [dtype |-> "float64",
     val |-> [i \in Shape(x, y) |-> Elem(x, i) * y.den + Elem(y, i) * x.den],
     den |-> x.den * y.den]

\* float tensor / scale (the scale is positive).
Divide(x, s) ==
    [dtype |-> "float64", val |-> [i \in DOMAIN x.val |-> x.val[i] * s.den], den |-> x.den * s.val[1]]

\* Round p/q (q > 0) half away from zero: what np.around does not do.
RoundHalfAway(p, q) ==
    LET f == p \div q
        r == p % q
    IN  IF 2 * r < q THEN f
        ELSE IF 2 * r > q THEN f + 1
        ELSE IF p >= 0 THEN f + 1 ELSE f

\* np.around on one element p/q (q > 0): round half to even.
RoundHalfEven(p, q) ==
    LET f == p \div q
        r == p % q
    IN  IF 2 * r < q THEN f
        ELSE IF 2 * r > q THEN f + 1
        ELSE IF f % 2 = 0 THEN f ELSE f + 1

np_around(x) ==
    [dtype |-> "float64", val |-> [i \in DOMAIN x.val |-> RoundHalfEven(x.val[i], x.den)], den |-> 1]

\* integer-valued float tensor + zero point: float64, no wrap.
AddZeroPoint(x, z) ==
    [dtype |-> "float64", val |-> [i \in Shape(x, z) |-> Elem(x, i) + Elem(z, i)], den |-> 1]

ClipNone(x, lo, hi) == x

np_clip(x, lo, hi) ==
    [x EXCEPT !.val = [i \in DOMAIN x.val |->
                         IF x.val[i] < lo THEN lo ELSE IF x.val[i] > hi THEN hi ELSE x.val[i]]]

\* Line 49 without astype(np.int32): the subtraction stays in the narrow type.
DequantizeNarrow(x, zero_point, scale) == Multiply(Subtract(x, zero_point), scale)

\* Lines 49-50: (x.astype(np.int32) - zero_point) * scale.
Dequantize(x, zero_point, scale) == Multiply(Subtract(astype(x, "int32"), zero_point), scale)

\* Lines 52-55: clip(around(float_y / scale) + zero_point, min, max).astype(dtype),
\* with the element type each of lines 52, 53 and 55 read from C_zero_point.
Requantize(float_y, scale, zero_point, dtype_min, dtype_max, dtype_out) ==
    LET out_min == iinfo_min(dtype_min)
        out_max == iinfo_max(dtype_max)
    IN  astype(np_clip(AddZeroPoint(np_around(Divide(float_y, scale)), zero_point),
                       out_min, out_max),
               dtype_out)

(* ------------------------- the attribute store ---------------------- *)
\* Line 26-27.
input_names == <<"A", "A_scale", "A_zero_point", "B",
                 "B_scale", "B_zero_point", "C_scale", "C_zero_point">>

Names == {input_names[i] : i \in DOMAIN input_names}

\* input_names.index(item), 0-based as in Python.
item_idx(item) == (CHOOSE i \in DOMAIN input_names : input_names[i] = item) - 1

\* 'scale' in item.
IsScale(item) == item \in {"A_scale", "B_scale", "C_scale"}

\* item in ('A_zero_point', 'B_zero_point', 'C_zero_point').
IsZeroPoint(item) == item \in {"A_zero_point", "B_zero_point", "C_zero_point"}

Absent == [kind |-> "ABSENT", value |-> NoneT]

\* Attribute(item, {'type': AttrType.TENSOR, 'value': ret}).
Attribute(v) == [kind |-> "TENSOR", value |-> v]

\* The result of one __getattr__ call: the value returned (NoneT for None), the
\* store it leaves, and the names it derived.
Result(r, st, d) == [ret |-> r, attr |-> st, derived |-> d]

\* Lines 20-23 never finding the stored attribute.
StoredNever(st, item) == NoneT

\* Lines 20-23: self.__dict__['_attr'][item].value, None when there is none.
StoredValue(st, item) == st[item].value

\* Lines 26-35 with the input taking precedence over a stored value.
FromInputAlways(st, ins, item) ==
    IF Len(ins) > item_idx(item)
    THEN LET raw == ins[item_idx(item) + 1]
             r == IF IsScale(item) THEN AsFloat32(raw) ELSE raw
         IN  Result(r, [st EXCEPT ![item] = Attribute(r)], {item})
    ELSE Result(StoredValue(st, item), st, {})

\* Lines 26-35 without the store at line 35.
FromInputNoCache(st, ins, item) ==
    IF StoredValue(st, item) # NoneT THEN Result(StoredValue(st, item), st, {})
    ELSE IF item \in Names /\ Len(ins) > item_idx(item)
    THEN LET raw == ins[item_idx(item) + 1]
             r == IF IsScale(item) THEN AsFloat32(raw) ELSE raw
         IN  Result(r, st, {item})
    ELSE Result(NoneT, st, {})

\* Lines 20-35: the stored value, else the input tensor at the name's position,
\* cast to float32 for a scale and stored as a TENSOR attribute.
FromInput(st, ins, item) ==
    IF StoredValue(st, item) # NoneT THEN Result(StoredValue(st, item), st, {})
    ELSE IF item \in Names /\ Len(ins) > item_idx(item)
    THEN LET raw == ins[item_idx(item) + 1]
             r == IF IsScale(item) THEN AsFloat32(raw) ELSE raw
         IN  Result(r, [st EXCEPT ![item] = Attribute(r)], {item})
    ELSE Result(NoneT, st, {})

\* Lines 37-38 storing an int32 zero while returning the one of A's type.
ZeroDefaultUntyped(st, a) ==
    [ret |-> ScalarT(a.dtype, 0), store |-> Attribute(ScalarT("int32", 0))]

\* Lines 37-38: np.array(0, dtype=self.A.dtype), returned and stored.
ZeroDefault(st, a) ==
    [ret |-> ScalarT(a.dtype, 0), store |-> Attribute(ScalarT(a.dtype, 0))]

\* Line 36 applying the default to every name.
DefaultAppliesAll(item) == TRUE

\* Line 36: item in ('A_zero_point', 'B_zero_point', 'C_zero_point').
DefaultApplies(item) == IsZeroPoint(item)

\* Line 42: super().__getattr__(item) when nothing yields a value: the attribute
\* is missing.
super_getattr(st, item) == NoneT

\* Lines 37-38 on the store the nested read of A left: the zero is returned
\* and stored under the name.
StoreDefault(z, a, item) ==
    Result(z.ret, [a.attr EXCEPT ![item] = z.store], a.derived \cup {item})

\* Lines 36-38 and 41-42, a being the nested read self.A: the default when A is
\* there, else what the base class yields.
DefaultFrom(a, item) ==
    IF a.ret # NoneT THEN StoreDefault(ZeroDefault(a.attr, a.ret), a, item)
    ELSE Result(super_getattr(a.attr, item), a.attr, a.derived)

\* Lines 36-42, first being what lines 20-35 yielded.
OrDefault(first, ins, item) ==
    IF first.ret = NoneT /\ DefaultApplies(item)
    THEN DefaultFrom(FromInput(first.attr, ins, "A"), item)
    ELSE IF first.ret = NoneT
    THEN Result(super_getattr(first.attr, item), first.attr, first.derived)
    ELSE first

\* Lines 19-43: QLinearAddMsOp.__getattr__(item).
getattr(st, ins, item) == OrDefault(FromInput(st, ins, item), ins, item)

(* ----------------------------- infer_shape -------------------------- *)
\* Line 48 with the assertion stripped.
ArityAny(ins) == TRUE

\* Line 48 counting only the five quantization parameters' minimum.
ArityFive(ins) == Len(ins) >= 5

\* Line 48: assert len(inputs) >= 7.
ArityOk(ins) == Len(ins) >= 7

\* The attribute reads of lines 49-55, in evaluation order.
InferReads == <<"A", "A_zero_point", "A_scale", "B", "B_zero_point", "B_scale",
                "C_zero_point", "C_zero_point", "C_scale", "C_zero_point", "C_zero_point">>

NoCount == [n \in Names |-> 0]

\* What one read r adds to the reads so far.
AfterRead(acc, r) ==
    [attr |-> r.attr,
     cnt |-> [n \in Names |-> acc.cnt[n] + (IF n \in r.derived THEN 1 ELSE 0)],
     rets |-> Append(acc.rets, r.ret),
     missing |-> r.ret = NoneT]

\* The reads of infer_shape one after the other, each on the store the one
\* before left; rets[k] is what read k returned.  A read that yields nothing
\* stops the pass.
RECURSIVE ReadAll(_, _, _)
ReadAll(acc, ins, k) ==
    IF k > Len(InferReads) \/ acc.missing THEN acc
    ELSE ReadAll(AfterRead(acc, getattr(acc.attr, ins, InferReads[k])), ins, k + 1)

\* Line 50 with B left in its own element type.
float_b_narrow(rd) == DequantizeNarrow(rd.rets[4], rd.rets[5], rd.rets[6])

\* Lines 49-51.
float_a(rd) == Dequantize(rd.rets[1], rd.rets[2], rd.rets[3])
float_b(rd) == Dequantize(rd.rets[4], rd.rets[5], rd.rets[6])
float_y(rd) == np_add(float_a(rd), float_b(rd))

\* Lines 52-55.
out_tensor(rd) ==
    Requantize(float_y(rd), rd.rets[9], rd.rets[10],
               rd.rets[7].dtype, rd.rets[8].dtype, rd.rets[11].dtype)

\* float_a and float_b before line 49 has run.
NoFloats == [a |-> NoneT, b |-> NoneT]

\* Lines 49-56 after the reads rd.  set: whether set_out_tensor was called.
Compute(rd) ==
    IF rd.missing
    THEN [exc |-> "MissingRequiredAttribute", attr |-> rd.attr, cnt |-> rd.cnt,
          set |-> FALSE, out |-> Unresolved, floats |-> NoFloats]
    ELSE [exc |-> "none", attr |-> rd.attr, cnt |-> rd.cnt,
          set |-> TRUE, out |-> out_tensor(rd),
          floats |-> [a |-> float_a(rd), b |-> float_b(rd)]]

\* Lines 45-56.
infer_shape(st, ins) ==
    IF ~ArityOk(ins)
    THEN [exc |-> "AssertionError", attr |-> st, cnt |-> NoCount, set |-> FALSE, out |-> Unresolved,
          floats |-> NoFloats]
    ELSE Compute(ReadAll([attr |-> st, cnt |-> NoCount, rets |-> <<>>, missing |-> FALSE],
                         ins, 1))

\* The error record the inference driver keeps of what a node's inference raised.
ErrorKindOf(e) ==
    CASE e = "none" -> "none"
      [] e = "AssertionError" -> "MalformedOperator"
      [] e = "MissingRequiredAttribute" -> "MissingRequiredAttribute"

(* ------------------------------ the inputs -------------------------- *)
DTypes == {"uint8", "int8"}

AVecs(T) == IF T = "uint8" THEN {<<10, 20>>, <<0, 255>>, <<250, 3>>}
            ELSE {<<10, 20>>, <<-128, 127>>, <<-3, 3>>}

BVecs(T) == IF T = "uint8" THEN {<<5, 5>>, <<255, 0>>, <<0, 7>>}
            ELSE {<<5, 5>>, <<127, -128>>, <<0, -7>>}

ZeroPoints == {0, 5}
InScales == {FloatT("float32", 1, 2), FloatT("float32", 1, 1), FloatT("float32", 3, 2)}
OutScales == {FloatT("float32", 1, 2), FloatT("float32", 1, 1), FloatT("float32", 2, 1)}

\* The eight input tensors of a node, cut to the n it has.
InputList(n, T, a, as, az, b, bs, bz, cs, cz) ==
    SubSeq(<<IntT(T, a), as, ScalarT(T, az), IntT(T, b), bs, ScalarT(T, bz), cs, ScalarT(T, cz)>>,
           1, n)

\* The value a node declares for a name: none equals the input at its position.
DeclaredAttr(item, T) ==
    IF IsScale(item) THEN [kind |-> "FLOAT", value |-> FloatT("pyfloat", 3, 2)]
    ELSE IF IsZeroPoint(item) THEN Attribute(ScalarT(T, 7))
    ELSE Attribute(IntT(T, <<1, 2>>))

DeclaredSets == {{}} \cup {{x} : x \in Names} \cup {{"A", "C_zero_point"}}

\* convert_torch_to_onnx has not returned
NoResult == [returned |-> FALSE, input_names |-> <<>>, input_shapes |-> <<>>]

\* No conversion is running.
TorchIdle ==
    /\ pc = "idle"
    /\ input_shapes = <<>>
    /\ input_info_dict = <<>>
    /\ input_dtype = <<>>
    /\ idx = 0
    /\ inputNames = <<>>
    /\ exit_code = 1
    /\ child = "none"
    /\ childExit = 0
    /\ raised = FALSE
    /\ result = NoResult

\* A node on which nothing has been read or inferred yet.
NodeFresh ==
    /\ declared = attr
    /\ ret = NoneT
    /\ lastItem = "none"
    /\ reads = 0
    /\ derivCount = NoCount
    /\ out = Unresolved
    /\ prevOut = Unresolved
    /\ exc = "none"
    /\ err = "none"
    /\ passes = 0
    /\ runInputs = <<>>
    /\ prevInputs = <<>>
    /\ floats = NoFloats

InitRest ==
    /\ TorchIdle
    /\ NodeFresh

\* A node as constructed: 0..8 inputs, some names declared.
Init ==
    /\ \E n \in 0..8, T \in DTypes :
         inputs = InputList(n, T, <<10, 20>>, FloatT("float32", 1, 2), 5,
                            <<5, 5>>, FloatT("float64", 1, 2), 5,
                            FloatT("float32", 1, 1), 5)
    /\ \E D \in DeclaredSets :
         attr = [n \in Names |-> IF n \in D THEN DeclaredAttr(n, "uint8") ELSE Absent]
    /\ InitRest

\* A node whose data input the graph feeds again between passes.
InitFeed ==
    /\ \E n \in {1, 7, 8} :
         inputs = InputList(n, "uint8", <<10, 20>>, FloatT("float32", 1, 2), 5,
                            <<5, 5>>, FloatT("float64", 1, 2), 5,
                            FloatT("float32", 1, 1), 5)
    /\ \E D \in {{}, {"A"}, {"C_zero_point"}} :
         attr = [n \in Names |-> IF n \in D THEN DeclaredAttr(n, "uint8") ELSE Absent]
    /\ InitRest

\* A well-formed node with nothing declared, over the numeric cases.
InitQuant ==
    /\ \E n \in {7, 8}, T \in DTypes :
       \E a \in AVecs(T), b \in BVecs(T), as \in InScales, bs \in InScales, cs \in OutScales,
          az \in ZeroPoints, bz \in ZeroPoints, cz \in ZeroPoints :
         inputs = InputList(n, T, a, as, az, b, bs, bz, cs, cz)
    /\ attr = [n \in Names |-> Absent]
    /\ InitRest

(* ------------------------------ the actions ------------------------- *)
\* A read of self.<item> from outside infer_shape.
ReadAttr(item) ==
    /\ reads < MaxReads
    /\ LET r == getattr(attr, inputs, item)
       IN  /\ ret' = r.ret
           /\ attr' = r.attr
           /\ derivCount' = [n \in Names |-> derivCount[n] + (IF n \in r.derived THEN 1 ELSE 0)]
    /\ lastItem' = item
    /\ reads' = reads + 1
    /\ UNCHANGED <<inputs, declared, out, prevOut, exc, err, passes, runInputs, prevInputs,
                   floats>>
    /\ UNCHANGED torchVars

\* One inference pass over the node.
InferShape ==
    /\ passes < MaxPasses
    /\ LET r == infer_shape(attr, inputs)
       IN  /\ attr' = r.attr
           /\ derivCount' = [n \in Names |-> derivCount[n] + r.cnt[n]]
           /\ exc' = r.exc
           /\ err' = ErrorKindOf(r.exc)
           /\ out' = IF r.set THEN r.out ELSE out
           /\ floats' = IF r.set THEN r.floats ELSE floats
    /\ prevOut' = out
    /\ passes' = passes + 1
    /\ runInputs' = inputs
    /\ prevInputs' = runInputs
    /\ UNCHANGED <<inputs, declared, ret, lastItem, reads>>
    /\ UNCHANGED torchVars

\* The graph hands the node another value for its data input A.
Feed ==
    /\ Len(inputs) >= 1
    /\ \E v \in AVecs(inputs[1].dtype) \ {inputs[1].val} :
         inputs' = [inputs EXCEPT ![1] = IntT(inputs[1].dtype, v)]
    /\ UNCHANGED <<attr, declared, ret, lastItem, reads, derivCount, out, prevOut,
                   exc, err, passes, runInputs, prevInputs, floats>>
    /\ UNCHANGED torchVars

Next ==
    \/ \E item \in Names : ReadAttr(item)
    \/ InferShape

Spec == Init /\ [][Next]_vars

NextFeed ==
    \/ \E item \in Names : ReadAttr(item)
    \/ InferShape
    \/ Feed

SpecFeed == InitFeed /\ [][NextFeed]_vars

NextQuant == InferShape

SpecQuant == InitQuant /\ [][NextQuant]_vars

(* ---------------- convert_torch_to_onnx (torch/process.py) -------------- *)
(* An input name is [prefix, base]: the text 'input_' repeated prefix times *)
(* followed by base.  params['input_shapes'] is a Python dict, which keeps  *)
(* its keys in insertion order: a sequence of [name, shape] entries with    *)
(* distinct names.  The TorchScript model loads or fails to load; once      *)
(* loaded, reading its graph and building the tensors does not raise.       *)

NameOf(prefix, base) == [prefix |-> prefix, base |-> base]

\* The bases a caller's names are made of; the first two begin with a digit.
DigitBases == {"0", "1y"}
Bases == DigitBases \cup {"x"}

\* input_name[0].isdigit(), line 369 (names are never empty here)
StartsWithDigit(name) == name.prefix = 0 /\ name.base \in DigitBases

\* 'input_' + input_name, line 370
Prefixed(name) == NameOf(name.prefix + 1, name.base)

Entry(name, shape) == [name |-> name, shape |-> shape]

\* list(d.keys())
Keys(d) == [i \in DOMAIN d |-> d[i].name]

HasKey(d, name) == \E i \in DOMAIN d : d[i].name = name

\* d[name]
GetItem(d, name) == d[CHOOSE i \in DOMAIN d : d[i].name = name].shape

\* d.pop(name), line 372: the entry leaves and the others keep their order
Pop(d, name) == SelectSeq(d, LAMBDA e : e.name # name)

\* d[name] = shape, line 373: an existing key keeps its place and takes the
\* new value; a new key goes to the end
SetItem(d, name, shape) ==
    IF HasKey(d, name)
    THEN [i \in DOMAIN d |-> IF d[i].name = name THEN Entry(name, shape) ELSE d[i]]
    ELSE Append(d, Entry(name, shape))

\* lines 369-374: the name the loop goes on with
Renamed(name) == IF StartsWithDigit(name) THEN Prefixed(name) ELSE name

\* lines 369-373: params['input_shapes'] after the loop body for one input
ShapesAfter(d, name, shape) ==
    IF StartsWithDigit(name)
    THEN SetItem(Pop(d, name), Prefixed(name), shape)
    ELSE d

\* FATAL of the logger module: logs the message and ends the run; the
\* statement after it is never reached.
FATAL == "fatal"

\* line 439
ExitCodeIsOne(code) == code = 1

ExitCodeFails(code) == code # 0

\* lines 446-455: updated_params
updated_params(names, shapes) ==
    [returned |-> TRUE, input_names |-> names, input_shapes |-> shapes]

(* the inputs *)

NameSet == {NameOf(0, b) : b \in Bases} \cup {NameOf(1, "0")}
ShapeSet == {<<1>>, <<2, 3>>}
\* what the export process can end with: success, failure, killed by a signal
ExitCodes == {0, 1, -9}

Injective(f) == \A i, j \in DOMAIN f : f[i] = f[j] => i = j

\* the mappings a caller can supply: up to MaxInputs distinct names
Mappings ==
    UNION {{[i \in 1..n |-> Entry(ns[i], ss[i])] :
              ns \in {f \in [1..n -> NameSet] : Injective(f)},
              ss \in [1..n -> ShapeSet]} : n \in 0..MaxInputs}

\* params['input_dtype']: one entry per input, or one too few
DTypeLists(n) == {[i \in 1..k |-> "float32"] : k \in {m \in {n - 1, n} : m >= 0}}

NodeIdle ==
    /\ inputs = <<>>
    /\ attr = [n \in Names |-> Absent]
    /\ NodeFresh

\* convert_torch_to_onnx(model_path, params) is called
InitTorch ==
    /\ NodeIdle
    /\ pc = "check"
    /\ input_shapes \in Mappings
    /\ input_info_dict = <<>>
    /\ input_dtype \in DTypeLists(Len(input_shapes))
    /\ idx = 0
    /\ inputNames = <<>>
    /\ exit_code = 1
    /\ child = "none"
    /\ childExit = 0
    /\ raised = FALSE
    /\ result = NoResult

(* the actions *)

\* lines 264-280 and 363-366: no input shapes is fatal, and so is a model
\* that does not load; otherwise the mapping is copied for the loop
CheckParams ==
    /\ pc = "check"
    /\ \/ /\ input_shapes = <<>>
          /\ pc' = FATAL
          /\ UNCHANGED input_info_dict
       \/ /\ input_shapes # <<>>
          /\ pc' = FATAL
          /\ UNCHANGED input_info_dict
       \/ /\ input_shapes # <<>>
          /\ pc' = "rename"
          /\ input_info_dict' = input_shapes
    /\ UNCHANGED <<input_shapes, input_dtype, idx, inputNames, exit_code, child,
                   childExit, raised, result>>
    /\ UNCHANGED nodeVars

\* lines 368-387: one pass of the loop over the copy, in the caller's order
RenameInput ==
    /\ pc = "rename"
    /\ idx < Len(input_info_dict)
    /\ input_shapes' = ShapesAfter(input_shapes, input_info_dict[idx + 1].name,
                                   input_info_dict[idx + 1].shape)
    /\ inputNames' = Append(inputNames, Renamed(input_info_dict[idx + 1].name))
    /\ IF Len(input_dtype) > idx
       THEN /\ idx' = idx + 1
            /\ pc' = pc
       ELSE /\ pc' = "raised"
            /\ idx' = idx
    /\ UNCHANGED <<input_info_dict, input_dtype, exit_code, child, childExit,
                   raised, result>>
    /\ UNCHANGED nodeVars

\* lines 389-416: the loop is over; exit_code starts as 1
PrepareExport ==
    /\ pc = "rename"
    /\ idx = Len(input_info_dict)
    /\ exit_code' = 1
    /\ pc' = "export"
    /\ UNCHANGED <<input_shapes, input_info_dict, input_dtype, idx, inputNames,
                   child, childExit, raised, result>>
    /\ UNCHANGED nodeVars

\* lines 418-429 and 436-437: the export process starts, or starting it raises
StartProcess ==
    /\ pc = "export"
    /\ \/ /\ child' = "running"
          /\ pc' = "started"
          /\ UNCHANGED raised
       \/ /\ raised' = TRUE
          /\ pc' = FATAL
          /\ UNCHANGED child
    /\ UNCHANGED <<input_shapes, input_info_dict, input_dtype, idx, inputNames,
                   exit_code, childExit, result>>
    /\ UNCHANGED nodeVars

\* _export_to_onnx in the child, lines 235-250: it ends with some exit code
ChildExit ==
    /\ child = "running"
    /\ child' = "exited"
    /\ childExit' \in ExitCodes
    /\ UNCHANGED <<pc, input_shapes, input_info_dict, input_dtype, idx, inputNames,
                   exit_code, raised, result>>
    /\ UNCHANGED nodeVars

\* lines 430-437: join returns once the child has ended, then the exit code is
\* read and the process closed (a failing close is only logged); or join raises
JoinProcess ==
    /\ pc = "started"
    /\ \/ /\ child = "exited"
          /\ exit_code' = childExit
          /\ pc' = "joined"
          /\ UNCHANGED raised
       \/ /\ raised' = TRUE
          /\ pc' = FATAL
          /\ UNCHANGED exit_code
    /\ UNCHANGED <<input_shapes, input_info_dict, input_dtype, idx, inputNames,
                   child, childExit, result>>
    /\ UNCHANGED nodeVars

\* lines 439-455: a non-zero exit code is fatal; otherwise the updated
\* parameters are returned
Finish ==
    /\ pc = "joined"
    /\ IF ExitCodeFails(exit_code)
       THEN /\ pc' = FATAL
            /\ UNCHANGED result
       ELSE /\ pc' = "returned"
            /\ result' = updated_params(inputNames, input_shapes)
    /\ UNCHANGED <<input_shapes, input_info_dict, input_dtype, idx, inputNames,
                   exit_code, child, childExit, raised>>
    /\ UNCHANGED nodeVars

NextTorch ==
    \/ CheckParams
    \/ RenameInput
    \/ PrepareExport
    \/ StartProcess
    \/ ChildExit
    \/ JoinProcess
    \/ Finish

SpecTorch == InitTorch /\ [][NextTorch]_vars

(* ------------------------------ the claims -------------------------- *)
Abs(x) == IF x < 0 THEN 0 - x ELSE x

\* The integer nearest p/q (q > 0), the even one of the two at an exact tie.
NearestTieEven(p, q) ==
    CHOOSE k \in ((p \div q) - 1)..((p \div q) + 1) :
        /\ 2 * Abs(p - k * q) <= q
        /\ (2 * Abs(p - k * q) = q => k % 2 = 0)

Stored(item) == attr[item].value

\* ((a - A_zero_point) * A_scale + (b - B_zero_point) * B_scale) / C_scale at
\* element i, as the fraction QuotNum(i) / QuotDen.
QuotNum(i) ==
    ( (Elem(Stored("A"), i) - Stored("A_zero_point").val[1])
          * Stored("A_scale").val[1] * Stored("B_scale").den
    + (Elem(Stored("B"), i) - Stored("B_zero_point").val[1])
          * Stored("B_scale").val[1] * Stored("A_scale").den )
    * Stored("C_scale").den

QuotDen == Stored("A_scale").den * Stored("B_scale").den * Stored("C_scale").val[1]

OutType == Stored("C_zero_point").dtype
OutZero == Stored("C_zero_point").val[1]

Succeeded == passes >= 1 /\ exc = "none"

IsScenario ==
    /\ Len(inputs) >= 7
    /\ inputs[1] = IntT("uint8", <<10, 20>>) /\ inputs[4] = IntT("uint8", <<5, 5>>)
    /\ inputs[2] = FloatT("float32", 1, 2) /\ inputs[5] = FloatT("float32", 1, 2)
    /\ inputs[3].val = <<0>> /\ inputs[6].val = <<0>>
    /\ inputs[7] = FloatT("float32", 1, 1)
    /\ (Len(inputs) = 8 => inputs[8].val = <<0>>)

\* C1: after infer_shape on a node with at least 7 inputs every output element
\* is clip(round(((a - A_zero_point) * A_scale + (b - B_zero_point) * B_scale)
\* / C_scale) + C_zero_point, dtype_min, dtype_max) in the output integer type,
\* round taking an exact tie to the even integer; the scenario A=[10,20],
\* B=[5,5], scales 0.5, zero points 0, output scale 1.0 yields [8,12].
C1_QuantizedAdd ==
    Succeeded =>
        /\ out.dtype = OutType
        /\ DOMAIN out.val = DOMAIN Stored("A").val
        /\ \A i \in DOMAIN out.val :
             LET v == NearestTieEven(QuotNum(i), QuotDen) + OutZero
             IN  out.val[i] = IF v < iinfo_min(OutType) THEN iinfo_min(OutType)
                              ELSE IF v > iinfo_max(OutType) THEN iinfo_max(OutType)
                              ELSE v
        /\ (IsScenario => out.val = <<8, 12>>)

\* The scenario's pass has run: the ties 7.5 and 12.5 went to 8 and 12.
C1_Witness == Succeeded /\ IsScenario /\ out = IntT("uint8", <<8, 12>>)

\* C2: every output element lies within [min(T), max(T)] of the output type T,
\* and a quotient plus zero point at or beyond a bound is stored as that bound,
\* never wrapped.
C2_Saturation ==
    Succeeded =>
        \A i \in DOMAIN out.val :
            /\ out.val[i] >= iinfo_min(out.dtype)
            /\ out.val[i] <= iinfo_max(out.dtype)
            /\ (QuotNum(i) >= (iinfo_max(OutType) - OutZero) * QuotDen
                  => out.val[i] = iinfo_max(OutType))
            /\ (QuotNum(i) <= (iinfo_min(OutType) - OutZero) * QuotDen
                  => out.val[i] = iinfo_min(OutType))

\* One element saturates high and the other low in the same output.
C2_Witness ==
    /\ Succeeded
    /\ \E i \in DOMAIN out.val :
         /\ QuotNum(i) > (iinfo_max(OutType) - OutZero + 1) * QuotDen
         /\ out.val[i] = iinfo_max(OutType)
    /\ \E i \in DOMAIN out.val :
         /\ QuotNum(i) < (iinfo_min(OutType) - OutZero - 1) * QuotDen
         /\ out.val[i] = iinfo_min(OutType)

\* The pass is a dequantize of A followed by a requantize with A's own scale and
\* zero point: B contributes nothing.
IsRoundTrip ==
    /\ Succeeded
    /\ \A i \in DOMAIN Stored("B").val : Stored("B").val[i] = Stored("B_zero_point").val[1]
    /\ Stored("C_scale") = Stored("A_scale")
    /\ Stored("C_zero_point") = Stored("A_zero_point")
    /\ Stored("A_zero_point").dtype = Stored("A").dtype

\* C9: dequantizing x of type T with scale s and zero point z and requantizing
\* with the same s, z and T returns x.
C9_RoundTrip == IsRoundTrip => out = Stored("A")

\* A round trip of an element below its zero point.
C9_Witness ==
    /\ IsRoundTrip
    /\ \E i \in DOMAIN out.val : Stored("A").val[i] < Stored("A_zero_point").val[1]
    /\ out = Stored("A")

IsDeclared(item) == declared[item].kind # "ABSENT"
WasRead == lastItem \in Names
HasInput(item) == Len(inputs) > item_idx(item)

\* C3: a read of a name the node declares returns the declared value, never
\* the input tensor at the name's position.
C3_DeclaredWins ==
    (WasRead /\ IsDeclared(lastItem)) => ret = declared[lastItem].value

\* A declared name was read while a different input tensor sat at its position.
C3_Witness ==
    /\ WasRead /\ IsDeclared(lastItem) /\ HasInput(lastItem)
    /\ inputs[item_idx(lastItem) + 1] # declared[lastItem].value
    /\ ret = declared[lastItem].value

\* The positions the claim fixes.
C4_Position(item) ==
    CASE item = "A" -> 0 [] item = "A_scale" -> 1 [] item = "A_zero_point" -> 2
      [] item = "B" -> 3 [] item = "B_scale" -> 4 [] item = "B_zero_point" -> 5
      [] item = "C_scale" -> 6 [] item = "C_zero_point" -> 7

\* First match over declared value, input at the position, default.
C4_FirstMatch(item) ==
    IF IsDeclared(item) THEN declared[item].value
    ELSE IF Len(inputs) >= C4_Position(item) + 1
    THEN LET t == inputs[C4_Position(item) + 1]
         IN  IF item \in {"A_scale", "B_scale", "C_scale"} THEN [t EXCEPT !.dtype = "float32"] ELSE t
    ELSE IF item \in {"A_zero_point", "B_zero_point", "C_zero_point"}
            /\ (IsDeclared("A") \/ Len(inputs) >= 1)
    THEN LET companion == IF IsDeclared("A") THEN declared["A"].value ELSE inputs[1]
         IN  [dtype |-> companion.dtype, val |-> <<0>>, den |-> 1]
    ELSE NoneT

\* C4: a read yields the first match over (1) the declared value, (2) the input
\* tensor at the name's fixed position (a scale as float32), (3) for a zero
\* point only, a zero of the companion tensor's element type; nothing otherwise.
C4_FallbackChain == WasRead => ret = C4_FirstMatch(lastItem)

\* The default was used: C_zero_point read on a node with 7 inputs.
C4_Witness ==
    /\ lastItem = "C_zero_point" /\ ~IsDeclared("C_zero_point") /\ Len(inputs) = 7
    /\ ret = ScalarT(inputs[1].dtype, 0)

\* A name without which the node cannot compute: absent from the declaration
\* and from the input list, and no default applies.
MissingRequired(item) ==
    /\ ~IsDeclared(item)
    /\ ~HasInput(item)
    /\ (IsZeroPoint(item) => ~IsDeclared("A") /\ Len(inputs) = 0)

\* C5 as stated: with a required attribute missing, inference reports
\* MissingRequiredAttribute and leaves the output unresolved.
C5_ReportsMissingAttribute ==
    (passes >= 1 /\ \E item \in Names : MissingRequired(item))
        => (err = "MissingRequiredAttribute" /\ out = Unresolved)

\* C5 as amended: with a required attribute missing the node is below its
\* arity, the pass fails on that (MalformedOperator) before any attribute is
\* read, and no failing pass sets the output tensor.
C5_FailsWithoutOutput ==
    /\ (passes >= 1 /\ \E item \in Names : MissingRequired(item))
         => (err = "MalformedOperator" /\ out = Unresolved)
    /\ (passes >= 1 /\ exc # "none") => (out = prevOut /\ out = Unresolved)

\* A pass over a node with 6 inputs and no C_scale anywhere.
C5_Witness ==
    /\ passes >= 1 /\ Len(inputs) = 6 /\ MissingRequired("C_scale")
    /\ err = "MalformedOperator" /\ out = Unresolved

\* C6: a pass over a node with fewer than 7 inputs is recorded as a
\* MalformedOperator error, and no output is set.
C6_BelowArity ==
    (passes >= 1 /\ Len(inputs) < 7)
        => (exc = "AssertionError" /\ err = "MalformedOperator" /\ out = Unresolved)

\* Two quantization parameters short: 6 of 8 inputs, although everything the
\* computation reads could still be had.
C6_Witness ==
    /\ passes >= 1 /\ Len(inputs) = 6 /\ IsDeclared("C_scale")
    /\ err = "MalformedOperator" /\ out = Unresolved

\* C7: a name is derived at most once, a derived name is in the store, and a
\* read of a stored name returns the stored value whatever the inputs now hold.
C7_DerivedOnce ==
    /\ \A n \in Names : derivCount[n] <= 1
    /\ \A n \in Names : derivCount[n] = 1 => attr[n].kind = "TENSOR"
    /\ (WasRead /\ attr[lastItem].kind # "ABSENT") => ret = attr[lastItem].value

\* A second read of A after the graph changed the input: the stored value.
C7_Witness ==
    /\ reads = 2 /\ lastItem = "A" /\ derivCount["A"] = 1
    /\ inputs[1] # ret
    /\ ret = attr["A"].value

\* C8: a second pass over unchanged inputs leaves the same output tensor.
C8_Idempotent ==
    (passes >= 2 /\ runInputs = prevInputs) => (out = prevOut)

\* Two passes over the same inputs, the first of which filled the store.
C8_Witness ==
    /\ passes = 2 /\ reads = 0 /\ runInputs = prevInputs
    /\ derivCount["C_zero_point"] = 1 /\ Len(inputs) = 7
    /\ out # Unresolved /\ out = prevOut

\* C10: an attribute present in the store keeps its kind.
C10_KindStable ==
    [][\A n \in Names : attr[n].kind # "ABSENT" => attr'[n].kind = attr[n].kind]_vars

\* A FLOAT attribute read, and inferred with, while a tensor sat at its position.
C10_Witness ==
    /\ declared["A_scale"].kind = "FLOAT" /\ HasInput("A_scale")
    /\ lastItem = "A_scale" /\ passes >= 1 /\ exc = "none"
    /\ attr["A_scale"].kind = "FLOAT"

\* C11: the dequantize step holds (x - z) * scale with x - z the true integer
\* difference, negative when the zero point exceeds the raw value, for A and
\* for B alike.
C11_NoUnderflow ==
    Succeeded =>
        /\ floats.a.den = Stored("A_scale").den
        /\ floats.b.den = Stored("B_scale").den
        /\ \A i \in DOMAIN Stored("A").val :
             floats.a.val[i] = (Stored("A").val[i] - Stored("A_zero_point").val[1])
                                 * Stored("A_scale").val[1]
        /\ \A i \in DOMAIN Stored("B").val :
             floats.b.val[i] = (Stored("B").val[i] - Stored("B_zero_point").val[1])
                                 * Stored("B_scale").val[1]

\* An element of A and an element of B below their zero points, both negative
\* after dequantizing.
C11_Witness ==
    /\ Succeeded
    /\ \E i \in DOMAIN Stored("A").val :
         /\ Stored("A").val[i] < Stored("A_zero_point").val[1]
         /\ floats.a.val[i] < 0
    /\ \E i \in DOMAIN Stored("B").val :
         /\ Stored("B").val[i] < Stored("B_zero_point").val[1]
         /\ floats.b.val[i] < 0

(* convert_torch_to_onnx *)

Returned == pc = "returned"

\* C12: the export runs in a child process that has ended before its exit code
\* is read; a result is returned only when that process ended with exit code 0;
\* after a non-zero exit code, or an exception while starting or joining the
\* process, the conversion is fatal and returns nothing.
C12_ReturnsOnlyOnSuccess ==
    /\ Returned => /\ child = "exited"
                   /\ childExit = 0
                   /\ exit_code = 0
                   /\ ~raised
                   /\ result.returned
    /\ result.returned => Returned
    /\ pc = "joined" => child = "exited" /\ exit_code = childExit
    /\ raised => pc = FATAL
    /\ (child = "exited" /\ childExit # 0) => pc \in {"started", "joined", FATAL}

\* The child ended with exit code 0 and the conversion returned its result.
C12_Witness ==
    /\ Returned
    /\ child = "exited"
    /\ childExit = 0
    /\ result = updated_params(inputNames, input_shapes)
    /\ Len(inputNames) = MaxInputs

\* The caller's i-th name as the loop leaves it.
C13_Expected(i) == Renamed(input_info_dict[i].name)

\* C13: in what is returned, no input name begins with a digit, input_names is
\* as long as the caller's mapping and follows its order, and the keys of
\* input_shapes, in order, are input_names, each key holding the shape the
\* caller gave for the name it came from.
C13_NamesMatchShapes ==
    result.returned =>
        /\ \A i \in DOMAIN result.input_names : ~StartsWithDigit(result.input_names[i])
        /\ Len(result.input_names) = Len(input_info_dict)
        /\ \A i \in DOMAIN result.input_names : result.input_names[i] = C13_Expected(i)
        /\ Keys(result.input_shapes) = result.input_names
        /\ \A i \in DOMAIN result.input_names :
             GetItem(result.input_shapes, result.input_names[i]) = input_info_dict[i].shape
====
